---- MODULE Spec2Model ----
(***************************************************************************)
(* A model of CeWL++ (src/cewlplus.py): the AdvancedCeWL crawler, its link *)
(* filter, the concurrent re-scan pass of analyze_site and the top level   *)
(* of main.  URLs and hrefs are sequences of one-character strings, so     *)
(* that urlparse, urljoin and the regular expressions of the link filter   *)
(* are computed on the text, as the program computes them.                 *)
(***************************************************************************)
EXTENDS Integers, Sequences, FiniteSets, TLC

(***************************************************************************)
(* Text: a string is a sequence of characters.                             *)
(***************************************************************************)
UpperAlphabet ==
  <<"A","B","C","D","E","F","G","H","I","J","K","L","M",
    "N","O","P","Q","R","S","T","U","V","W","X","Y","Z">>

LowerAlphabet ==
  <<"a","b","c","d","e","f","g","h","i","j","k","l","m",
    "n","o","p","q","r","s","t","u","v","w","x","y","z">>

DigitChars == {"0","1","2","3","4","5","6","7","8","9"}

Range(s) == {s[i] : i \in 1..Len(s)}

LetterChars == Range(UpperAlphabet) \cup Range(LowerAlphabet)

\* str.lower() on one character
LowerOf ==
  [c \in Range(UpperAlphabet) |->
     LowerAlphabet[CHOOSE i \in 1..Len(UpperAlphabet) : UpperAlphabet[i] = c]]

LowerChar(c) == IF c \in DOMAIN LowerOf THEN LowerOf[c] ELSE c

\* str.lower()
Lower(s) == [i \in 1..Len(s) |-> LowerChar(s[i])]

StartsWith(s, p) == Len(s) >= Len(p) /\ SubSeq(s, 1, Len(p)) = p

EndsWith(s, p) == Len(s) >= Len(p) /\ SubSeq(s, Len(s) - Len(p) + 1, Len(s)) = p

\* the least element of a non-empty set of numbers
Least(S) == CHOOSE i \in S : \A j \in S : i <= j

\* str.find(c) + 1: the first position of character c in s, 0 when absent
Find(s, c) ==
  LET hits == {i \in 1..Len(s) : s[i] = c}
  IN IF hits = {} THEN 0 ELSE Least(hits)

\* the first position of any character of cs at or after position from,
\* Len(s) + 1 when there is none (urllib.parse._splitnetloc)
FindAny(s, cs, from) ==
  LET hits == {i \in from..Len(s) : s[i] \in cs}
  IN IF hits = {} THEN Len(s) + 1 ELSE Least(hits)

\* str.split(sep): the segments of s between occurrences of character sep
RECURSIVE Split(_, _)
Split(s, sep) ==
  LET i == Find(s, sep)
  IN IF i = 0
     THEN <<s>>
     ELSE <<SubSeq(s, 1, i - 1)>> \o Split(SubSeq(s, i + 1, Len(s)), sep)

\* sep.join(segs)
RECURSIVE StrJoin(_, _)
StrJoin(segs, sep) ==
  IF segs = <<>> THEN <<>>
  ELSE IF Len(segs) = 1 THEN segs[1]
  ELSE segs[1] \o <<sep>> \o StrJoin(Tail(segs), sep)

(***************************************************************************)
(* urllib.parse, as used at src/cewlplus.py:214 and :221-222.              *)
(***************************************************************************)
Empty == <<>>

S_http == <<"h","t","t","p">>
S_https == <<"h","t","t","p","s">>
S_ftp == <<"f","t","p">>
S_file == <<"f","i","l","e">>

\* the schemes of the fixtures that urllib lists in uses_relative and uses_netloc
UsesRelative == {Empty, S_http, S_https, S_ftp, S_file}

UsesNetloc == {Empty, S_http, S_https, S_ftp, S_file}

SchemeChars == LetterChars \cup DigitChars \cup {"+", "-", "."}

\* url.find(':') and the test that what precedes it is a scheme
SplitScheme(url, default) ==
  LET i == Find(url, ":")
  IN IF /\ i > 1
        /\ url[1] \in LetterChars
        /\ \A k \in 1..(i - 1) : url[k] \in SchemeChars
     THEN [scheme |-> Lower(SubSeq(url, 1, i - 1)),
           rest |-> SubSeq(url, i + 1, Len(url))]
     ELSE [scheme |-> default, rest |-> url]

\* if url[:2] == '//': netloc, url = _splitnetloc(url, 2)
SplitNetloc(u) ==
  IF StartsWith(u, <<"/", "/">>)
  THEN LET delim == FindAny(u, {"/", "?", "#"}, 3)
       IN [netloc |-> SubSeq(u, 3, delim - 1), rest |-> SubSeq(u, delim, Len(u))]
  ELSE [netloc |-> Empty, rest |-> u]

\* url.split(c, 1) when c occurs in url
SplitAt(u, c) ==
  LET k == Find(u, c)
  IN IF k > 0
     THEN [head |-> SubSeq(u, 1, k - 1), tail |-> SubSeq(u, k + 1, Len(u))]
     ELSE [head |-> u, tail |-> Empty]

ParsedUrl(scheme, netloc, q, fragment) ==
  [scheme |-> scheme, netloc |-> netloc, path |-> q.head,
   query |-> q.tail, fragment |-> fragment]

ParseQuery(scheme, netloc, f) ==
  ParsedUrl(scheme, netloc, SplitAt(f.head, "?"), f.tail)

ParseFragment(scheme, n) == ParseQuery(scheme, n.netloc, SplitAt(n.rest, "#"))

ParseNetloc(s) == ParseFragment(s.scheme, SplitNetloc(s.rest))

\* urlsplit(url, scheme): scheme, netloc, path, query, fragment
urlparse(url, default) == ParseNetloc(SplitScheme(url, default))

AddNetloc(p) ==
  IF \/ p.netloc # Empty
     \/ (p.scheme # Empty /\ p.scheme \in UsesNetloc
         /\ ~StartsWith(p.path, <<"/", "/">>))
  THEN <<"/", "/">> \o p.netloc
         \o (IF p.path # Empty /\ p.path[1] # "/" THEN <<"/">> \o p.path ELSE p.path)
  ELSE p.path

AddScheme(u, scheme) == IF scheme # Empty THEN scheme \o <<":">> \o u ELSE u

AddQuery(u, query) == IF query # Empty THEN u \o <<"?">> \o query ELSE u

AddFragment(u, fragment) == IF fragment # Empty THEN u \o <<"#">> \o fragment ELSE u

\* urlunsplit
urlunparse(p) ==
  AddFragment(AddQuery(AddScheme(AddNetloc(p), p.scheme), p.query), p.fragment)

\* segments[1:-1] = filter(None, segments[1:-1])
DropInnerEmpty(segs) ==
  IF Len(segs) <= 2 THEN segs
  ELSE <<segs[1]>>
         \o SelectSeq(SubSeq(segs, 2, Len(segs) - 1), LAMBDA x : x # Empty)
         \o <<segs[Len(segs)]>>

\* the loop over segments that resolves "." and ".."
RECURSIVE ResolveDots(_, _)
ResolveDots(segs, acc) ==
  IF segs = <<>> THEN acc
  ELSE IF Head(segs) = <<".", ".">>
       THEN ResolveDots(Tail(segs),
                        IF acc = <<>> THEN acc ELSE SubSeq(acc, 1, Len(acc) - 1))
  ELSE IF Head(segs) = <<".">>
       THEN ResolveDots(Tail(segs), acc)
  ELSE ResolveDots(Tail(segs), Append(acc, Head(segs)))

\* base_parts without its last item unless that item is ''
BaseParts(parts) ==
  IF parts[Len(parts)] # Empty THEN SubSeq(parts, 1, Len(parts) - 1) ELSE parts

Segments(bpath, path) ==
  IF StartsWith(path, <<"/">>)
  THEN Split(path, "/")
  ELSE DropInnerEmpty(BaseParts(Split(bpath, "/")) \o Split(path, "/"))

Resolved(segments) ==
  IF segments[Len(segments)] \in {<<".">>, <<".", ".">>}
  THEN Append(ResolveDots(segments, <<>>), Empty)
  ELSE ResolveDots(segments, <<>>)

\* '/'.join(resolved_path) or '/'
PathOrRoot(path) == IF path = Empty THEN <<"/">> ELSE path

ResolvePath(bpath, path) ==
  PathOrRoot(StrJoin(Resolved(Segments(bpath, path)), "/"))

\* urljoin once base (b) and url (r) are parsed
JoinParsed(url, b, r) ==
  IF r.scheme # b.scheme \/ r.scheme \notin UsesRelative THEN url
  ELSE IF r.scheme \in UsesNetloc /\ r.netloc # Empty THEN urlunparse(r)
  ELSE IF r.path = Empty
       THEN urlunparse([r EXCEPT
              !.netloc = IF r.scheme \in UsesNetloc THEN b.netloc ELSE r.netloc,
              !.path = b.path,
              !.query = IF r.query = Empty THEN b.query ELSE r.query])
  ELSE urlunparse([r EXCEPT
         !.netloc = IF r.scheme \in UsesNetloc THEN b.netloc ELSE r.netloc,
         !.path = ResolvePath(b.path, r.path)])

JoinBase(url, b) == JoinParsed(url, b, urlparse(url, b.scheme))

urljoin(base, url) ==
  IF base = Empty THEN url
  ELSE IF url = Empty THEN base
  ELSE JoinBase(url, urlparse(base, Empty))

(***************************************************************************)
(* The link filter, should_follow_link (src/cewlplus.py:219-243).          *)
(***************************************************************************)
DocumentExts ==
  { <<"p","d","f">>, <<"d","o","c">>, <<"d","o","c","x">>, <<"x","l","s">>,
    <<"x","l","s","x">>, <<"p","p","t">>, <<"p","p","t","x">>, <<"z","i","p">>,
    <<"r","a","r">>, <<"t","a","r">>, <<"g","z">> }

ImageExts ==
  { <<"j","p","g">>, <<"j","p","e","g">>, <<"p","n","g">>, <<"g","i","f">>,
    <<"b","m","p">>, <<"s","v","g">>, <<"w","e","b","p">> }

StyleScriptExts == { <<"c","s","s">>, <<"j","s">> }

S_javascript == <<"j","a","v","a","s","c","r","i","p","t",":">>
S_mailto == <<"m","a","i","l","t","o",":">>
S_tel == <<"t","e","l",":">>
S_hash == <<"#">>

\* the list skip_patterns: r'\.(a|b|...)$' is an "end" pattern over its
\* alternatives, r'^text' a "start" pattern
skip_patterns ==
  << [anchor |-> "end", alts |-> DocumentExts],
     [anchor |-> "end", alts |-> ImageExts],
     [anchor |-> "end", alts |-> StyleScriptExts],
     [anchor |-> "start", alts |-> {S_javascript}],
     [anchor |-> "start", alts |-> {S_mailto}],
     [anchor |-> "start", alts |-> {S_tel}],
     [anchor |-> "start", alts |-> {S_hash}] >>

\* re.search(pattern, link, re.IGNORECASE) for the patterns of skip_patterns:
\* the anchors bind to the two ends of the whole string that is searched
re_search(pattern, link) ==
  IF pattern.anchor = "end"
  THEN \E e \in pattern.alts :
         /\ Len(link) >= Len(e) + 1
         /\ Lower(SubSeq(link, Len(link) - Len(e), Len(link))) = <<".">> \o e
  ELSE \E p \in pattern.alts :
         /\ Len(link) >= Len(p)
         /\ Lower(SubSeq(link, 1, Len(p))) = p

should_follow_link(link, base_url) ==
  LET parsed_link == urlparse(link, Empty)
      parsed_base == urlparse(base_url, Empty)
  IN IF parsed_link.netloc # Empty /\ parsed_link.netloc # parsed_base.netloc
     THEN FALSE
     ELSE ~ \E k \in 1..Len(skip_patterns) : re_search(skip_patterns[k], link)

(***************************************************************************)
(* The web the crawler runs against.  A body is what BeautifulSoup and the *)
(* extraction routines obtain from one page's content: size is the length  *)
(* class of the content ("empty": '', "short": under 1000 characters,       *)
(* "long"), words is the set extract_words_advanced returns for its text,  *)
(* emails and phones the sets extract_entities finds, meta the sequence of *)
(* appends extract_entities and extract_metadata make, links the href of   *)
(* each <a href> in document order.                                        *)
(***************************************************************************)
Body(size, ws, es, ps, meta, links) ==
  [size |-> size, words |-> ws, emails |-> es, phones |-> ps,
   meta |-> meta, links |-> links]

\* the content '' of a failed fetch: BeautifulSoup finds nothing in it
EmptyBody == Body("empty", {}, {}, {}, <<>>, <<>>)

\* a page served as it is, and as the headless browser renders it
Page(static, rendered) == [static |-> static, rendered |-> rendered]

Origin == <<"h","t","t","p",":","/","/","e","x","a","m","p","l","e",".","c","o","m">>

H_root == <<"/">>
H_a == <<"/","a">>
H_b == <<"/","b">>
H_c == <<"/","c">>
H_d == <<"/","d">>
H_other == <<"h","t","t","p",":","/","/","o","t","h","e","r",".","c","o","m","/","x">>
H_pdf == <<"/","f","i","l","e",".","p","d","f">>
H_mail == <<"m","a","i","l","t","o",":","a","@","b",".","c","o","m">>
H_top == <<"#","t","o","p">>
H_sms == <<"s","m","s",":","1">>

\* args.url
start_url == Origin \o H_root

Meta(bucket, value) == [bucket |-> bucket, value |-> value]

\* A small site with a cycle (/ -> /a -> /), links the filter must refuse, a
\* same-page fragment link, a page (/b) that has a text-message link as it is
\* served and its links to other pages only once rendered,
\* pages (/c, /d) two links from the start through /b, /d with a response
\* text that is empty until rendered.
SiteCycle ==
  (Origin \o H_root :>
     Page(Body("long", {"alpha", "beta"}, {"a@b.com"}, {},
               <<Meta("meta_description", "home")>>,
               <<H_a, H_other, H_pdf, H_mail, H_b>>),
          EmptyBody))
  @@ (Origin \o H_a :>
     Page(Body("long", {"alpha", "gamma"}, {}, {},
               <<Meta("years", "20"), Meta("meta_description", "home")>>,
               <<H_root, H_b, H_top>>),
          EmptyBody))
  @@ (Origin \o H_b :>
     Page(Body("short", {"beta"}, {}, {}, <<>>, <<H_sms>>),
          Body("long", {"beta", "delta"}, {"a@b.com"}, {"555-123-4567"},
               <<Meta("og:title", "b")>>, <<H_c, H_d>>)))
  @@ (Origin \o H_c :>
     Page(Body("long", {"gamma"}, {}, {}, <<>>, <<H_a>>), EmptyBody))
  @@ (Origin \o H_d :>
     Page(EmptyBody, Body("long", {"delta"}, {"c@d.org"}, {}, <<>>, <<>>)))

DigitSeq == <<"0","1","2","3","4","5","6","7","8","9">>

\* str(n) for n >= 0
RECURSIVE Decimal(_)
Decimal(n) ==
  IF n < 10 THEN <<DigitSeq[n + 1]>>
  ELSE Decimal(n \div 10) \o <<DigitSeq[(n % 10) + 1]>>

\* the fixed threshold of analyze_site: the re-scan runs below it
RescanThreshold == 50

\* the depth analyze_site passes for every resubmitted URL
RescanDepth == 1

\* A wide site: a start page with n links /p1 ... /pn to pages that do not
\* exist (the server answers 404), so that n + 1 URLs end up visited.
WideLinks(n) == [i \in 1..n |-> <<"/","p">> \o Decimal(i)]

WideSizes == {RescanThreshold - 2, RescanThreshold - 1}

SiteWide ==
  [n \in WideSizes |->
     (Origin \o H_root :>
        Page(Body("long", {"alpha"}, {}, {}, <<>>, WideLinks(n)), EmptyBody))]

Sites == {[kind |-> "cycle", n |-> 0]} \cup {[kind |-> "wide", n |-> n] : n \in WideSizes}

\* the pages of a site, by URL
Pages(st) == IF st.kind = "cycle" THEN SiteCycle ELSE SiteWide[st.n]

(***************************************************************************)
(* Bounds of the model.                                                    *)
(***************************************************************************)
\* max_depth ranges over 0..MaxDepth
MaxDepth == 2

\* threads (the pool size) ranges over 1..MaxThreads
MaxThreads == 2

\* at most MaxDown URLs of a site answer with a transport or status failure
MaxDown == 1

\* list(self.visited_urls) is taken in every order for sets up to this size
MaxPermute == 3

(***************************************************************************)
(* State.                                                                  *)
(***************************************************************************)
VARIABLES
  site,           \* the web site behind args.url
  down,           \* the URLs whose request raises (transport or status failure)
  max_depth,      \* self.max_depth
  threads,        \* self.threads
  driver,         \* self.driver: "none" (setup failed), "ok", or "broken" (get raises)
  min_word_length, \* self.min_word_length
  visited_urls,   \* self.visited_urls
  words,          \* self.words, a Counter: word -> count
  emails,         \* self.emails
  phone_numbers,  \* self.phone_numbers
  metadata,       \* self.metadata, a defaultdict(list): bucket -> sequence
  trace,          \* what the run does, in order: the "Analyzing [d]: url" log
                  \* lines and the politeness sleeps
  stack,          \* per thread (0 is the main thread), its analyze_page frames,
                  \* innermost first
  executor,       \* the ThreadPoolExecutor: "none", "open" or "shutdown"
  futures,        \* the URLs analyze_site submitted, in submission order
  queue,          \* the submitted URLs no worker has taken yet
  mainPc,         \* where main is
  outcome,        \* how the try block of main ended
  saved,          \* save_results was called
  driverQuit,     \* driver.quit() was called
  link,           \* the link filter on its own: the candidate,
  base_url,       \* the page that referenced it,
  follow,         \* and what the call returned (<<>> before the call)
  texts,          \* extraction on its own: the page texts analysed, in order,
  extracted,      \* what extract_words_advanced returned for the last of them,
  key_order,      \* the keys of self.words in the order they were inserted,
  wordlists       \* and what generate_wordlists returned (<<>> before the call)

config == <<site, down, max_depth, threads, driver, min_word_length>>

collected == <<visited_urls, words, emails, phone_numbers, metadata>>

pool == <<executor, futures, queue>>

top == <<mainPc, outcome, saved, driverQuit>>

probe == <<link, base_url, follow>>

derived == <<texts, extracted, key_order, wordlists>>

vars == <<config, collected, trace, stack, pool, top, probe, derived>>

Workers == 1..threads

Threads == 0..threads

EmptyMap == [x \in {} |-> 0]

\* the value a Counter or defaultdict reads for a key
Get(m, k, default) == IF k \in DOMAIN m THEN m[k] ELSE default

\* m[k] = v
Put(m, k, v) == [x \in DOMAIN m \cup {k} |-> IF x = k THEN v ELSE m[x]]

Frame(url, depth) ==
  [url |-> url, depth |-> depth, pc |-> "guard",
   todo |-> {}, cur |-> "", tmp |-> 0, i |-> 1]

\* thread t is inside analyze_page
Running(t) == stack[t] # <<>> /\ (t = 0 => mainPc = "analyze_page")

Top(t) == Head(stack[t])

SetTop(t, f) == [stack EXCEPT ![t] = <<f>> \o Tail(@)]

Return(t) == [stack EXCEPT ![t] = Tail(@)]

(***************************************************************************)
(* get_page_content (src/cewlplus.py:114-137).                             *)
(***************************************************************************)
\* the request carries no fragment
StripFragment(url) == SplitAt(url, "#").head

\* lines 120-132 when the request succeeds: response.text, or the rendered
\* page when that text is under 1000 characters and the driver works
ServedBody(key) ==
  IF Pages(site)[key].static.size # "long" /\ driver = "ok"
  THEN Pages(site)[key].rendered
  ELSE Pages(site)[key].static

\* session.get or raise_for_status raises: no such page, or the URL is down
RequestFails(key) == key \notin DOMAIN Pages(site) \/ key \in down

\* the variant in which the text of a response is kept although the request
\* failed (content assigned before the status check)
get_page_content_keeps_failed(url) ==
  IF StripFragment(url) \notin DOMAIN Pages(site)
  THEN EmptyBody
  ELSE ServedBody(StripFragment(url))

get_page_content(url) ==
  IF RequestFails(StripFragment(url))
  THEN EmptyBody
  ELSE ServedBody(StripFragment(url))

(***************************************************************************)
(* analyze_page (src/cewlplus.py:178-217), one frame per call.             *)
(***************************************************************************)
\* the guard without its visited test
GuardDepthOnly(url, depth) == depth > max_depth

\* the guard left out
GuardNever(url, depth) == FALSE

\* the guard with its visited test bypassed for the tasks of the pool
GuardBypassedInRescan(url, depth) ==
  depth > max_depth \/ (url \in visited_urls /\ executor = "none")

\* line 180: the call returns at once
Guarded(url, depth) == depth > max_depth \/ url \in visited_urls

\* after the loop over words comes extract_entities
AfterWord(todo) == IF todo = {} THEN "entities" ELSE "count"

\* lines 180-181
Guard(t) ==
  /\ Running(t) /\ Top(t).pc = "guard"
  /\ stack' = IF Guarded(Top(t).url, Top(t).depth)
              THEN Return(t)
              ELSE SetTop(t, [Top(t) EXCEPT !.pc = "fetch"])
  /\ UNCHANGED <<config, collected, trace, pool, top, probe, derived>>

\* lines 183-203: mark visited, log, fetch, parse, extract the page's words
MarkFetch(t) ==
  /\ Running(t) /\ Top(t).pc = "fetch"
  /\ LET f == Top(t)
         content == get_page_content(f.url)
     IN /\ visited_urls' = visited_urls \cup {f.url}
        /\ trace' = Append(trace, [ev |-> "analyze", url |-> f.url, depth |-> f.depth])
        /\ stack' = IF content.size = "empty"
                    THEN Return(t)
                    ELSE SetTop(t, [f EXCEPT !.pc = AfterWord(content.words),
                                             !.todo = content.words])
  /\ UNCHANGED <<config, words, emails, phone_numbers, metadata, pool, top, probe, derived>>

\* lines 204-205, first half of self.words[word] += 1: read the count
CountRead(t) ==
  /\ Running(t) /\ Top(t).pc = "count"
  /\ \E w \in Top(t).todo :
       stack' = SetTop(t, [Top(t) EXCEPT !.pc = "store", !.cur = w,
                                         !.tmp = Get(words, w, 0),
                                         !.todo = @ \ {w}])
  /\ UNCHANGED <<config, collected, trace, pool, top, probe, derived>>

\* line 205, second half: store the count read plus one
CountStore(t) ==
  /\ Running(t) /\ Top(t).pc = "store"
  /\ words' = Put(words, Top(t).cur, Top(t).tmp + 1)
  /\ stack' = SetTop(t, [Top(t) EXCEPT !.pc = AfterWord(Top(t).todo)])
  /\ UNCHANGED <<config, visited_urls, emails, phone_numbers, metadata,
                 trace, pool, top, probe, derived>>

\* self.metadata[bucket].append(value) for each of a page's values in order
RECURSIVE AppendAll(_, _)
AppendAll(md, ms) ==
  IF ms = <<>> THEN md
  ELSE AppendAll(Put(md, Head(ms).bucket,
                     Append(Get(md, Head(ms).bucket, <<>>), Head(ms).value)),
                 Tail(ms))

\* lines 207-208: extract_entities and extract_metadata
Entities(t) ==
  /\ Running(t) /\ Top(t).pc = "entities"
  /\ LET content == get_page_content(Top(t).url)
     IN /\ emails' = emails \cup content.emails
        /\ phone_numbers' = phone_numbers \cup content.phones
        /\ metadata' = AppendAll(metadata, content.meta)
  /\ stack' = SetTop(t, [Top(t) EXCEPT !.pc = "links"])
  /\ UNCHANGED <<config, visited_urls, words, trace, pool, top, probe, derived>>

\* the variant that recurses without a pause
NoSleep(tr, full_url, depth) == tr

\* line 216: time.sleep(self.delay) before the recursive call, kept in the trace
Sleep(tr, full_url, depth) ==
  Append(tr, [ev |-> "sleep", url |-> full_url, depth |-> depth])

\* lines 211-217: one turn of the loop over the page's links, or the return
Links(t) ==
  /\ Running(t) /\ Top(t).pc = "links"
  /\ LET f == Top(t)
         links == get_page_content(f.url).links
     IN IF f.depth < max_depth /\ f.i <= Len(links)
        THEN LET full_url == urljoin(f.url, links[f.i])
                 next == [f EXCEPT !.i = @ + 1]
             IN IF should_follow_link(full_url, f.url)
                THEN /\ trace' = Sleep(trace, full_url, f.depth + 1)
                     /\ stack' = [stack EXCEPT ![t] =
                                    <<Frame(full_url, f.depth + 1), next>> \o Tail(@)]
                ELSE /\ stack' = SetTop(t, next)
                     /\ UNCHANGED trace
        ELSE /\ stack' = Return(t)
             /\ UNCHANGED trace
  /\ UNCHANGED <<config, collected, pool, top, probe, derived>>

(***************************************************************************)
(* analyze_site (src/cewlplus.py:318-340) and the worker pool.             *)
(***************************************************************************)
\* lines 318-323: the call analyze_page(start_url) at depth 0
AnalyzeSite ==
  /\ mainPc = "start"
  /\ mainPc' = "analyze_page"
  /\ stack' = [stack EXCEPT ![0] = <<Frame(start_url, 0)>>]
  /\ UNCHANGED <<config, collected, trace, pool, outcome, saved, driverQuit, probe, derived>>

\* every order of the elements of S
Perms(S) ==
  {f \in [1..Cardinality(S) -> S] : \A x \in S : \E i \in DOMAIN f : f[i] = x}

\* one order of the elements of S
RECURSIVE SetToSeq(_)
SetToSeq(S) ==
  IF S = {} THEN <<>>
  ELSE LET x == CHOOSE y \in S : TRUE IN <<x>> \o SetToSeq(S \ {x})

\* list(self.visited_urls): a set is listed in an order the program does not
\* choose; every order for small sets, one order for large ones
ListOf(S) == IF Cardinality(S) <= MaxPermute THEN Perms(S) ELSE {SetToSeq(S)}

\* the comparison with <= in place of <
BelowThresholdInclusive(n) == n <= RescanThreshold

\* line 326
BelowThreshold(n) == n < RescanThreshold

\* lines 326-330: phase one has returned; below the threshold a pool is made
\* and every visited URL is submitted, otherwise analyze_site returns
PhaseOneDone ==
  /\ mainPc = "analyze_page" /\ stack[0] = <<>>
  /\ IF BelowThreshold(Cardinality(visited_urls))
     THEN /\ \E order \in ListOf(visited_urls) :
               /\ futures' = order
               /\ queue' = order
          /\ executor' = "open"
          /\ mainPc' = "join"
     ELSE /\ mainPc' = "save"
          /\ UNCHANGED pool
  /\ UNCHANGED <<config, collected, trace, stack, outcome, saved, driverQuit, probe, derived>>

\* a worker of the pool takes the next submitted task and enters
\* analyze_page(url, 1), up to the guard of lines 180-181: taking a task
\* touches nothing but the executor's own queue, so the two are one step
TakeTask(t) ==
  /\ t \in Workers
  /\ executor = "open" /\ queue # <<>> /\ stack[t] = <<>>
  /\ stack' = IF Guarded(Head(queue), RescanDepth)
              THEN stack
              ELSE [stack EXCEPT ![t] =
                      <<[Frame(Head(queue), RescanDepth) EXCEPT !.pc = "fetch"]>>]
  /\ queue' = Tail(queue)
  /\ UNCHANGED <<config, collected, trace, executor, futures, top, probe, derived>>

\* every submitted task has run to its end
AllDone == queue = <<>> /\ \A t \in Workers : stack[t] = <<>>

\* the variant that does not wait for the tasks
JoinReadyAtOnce == TRUE

\* lines 332-333 and the end of the with block: result() of every future,
\* then shutdown(wait=True)
JoinReady == AllDone

\* lines 332-340: analyze_site returns
Join ==
  /\ mainPc = "join" /\ JoinReady
  /\ executor' = "shutdown"
  /\ mainPc' = "save"
  /\ UNCHANGED <<config, collected, trace, stack, futures, queue,
                 outcome, saved, driverQuit, probe, derived>>

(***************************************************************************)
(* main (src/cewlplus.py:370-395).                                         *)
(***************************************************************************)
\* the variant whose handlers save what was collected
SavesAfterFailureAlways == TRUE

\* lines 389-392: the except clauses print a message and nothing else
SavesAfterFailure == FALSE

\* KeyboardInterrupt in the main thread during phase one: the frames unwind
\* to the except clause of main (lines 389-390)
Interrupt ==
  /\ mainPc = "analyze_page"
  /\ stack' = [stack EXCEPT ![0] = <<>>]
  /\ outcome' = "interrupted"
  /\ saved' = SavesAfterFailure
  /\ mainPc' = "finally"
  /\ UNCHANGED <<config, collected, trace, pool, driverQuit, probe, derived>>

\* KeyboardInterrupt while main waits in future.result(): the with block is
\* left through shutdown(wait=True), which lets every submitted task run
InterruptJoin ==
  /\ mainPc = "join"
  /\ outcome' = "interrupted"
  /\ mainPc' = "shutdown"
  /\ UNCHANGED <<config, collected, trace, stack, pool, saved, driverQuit, probe, derived>>

\* the pool has drained; the exception reaches the except clause of main
ExitPool ==
  /\ mainPc = "shutdown" /\ AllDone
  /\ executor' = "shutdown"
  /\ saved' = SavesAfterFailure
  /\ mainPc' = "finally"
  /\ UNCHANGED <<config, collected, trace, stack, futures, queue,
                 outcome, driverQuit, probe, derived>>

\* an exception other than KeyboardInterrupt escapes analyze_page in the
\* main thread (lines 391-392)
Error ==
  /\ mainPc = "analyze_page" /\ stack[0] # <<>>
  /\ stack' = [stack EXCEPT ![0] = <<>>]
  /\ outcome' = "error"
  /\ saved' = SavesAfterFailure
  /\ mainPc' = "finally"
  /\ UNCHANGED <<config, collected, trace, pool, driverQuit, probe, derived>>

\* lines 375-387: save_results and the summary
SaveResults ==
  /\ mainPc = "save"
  /\ saved' = TRUE
  /\ outcome' = "complete"
  /\ mainPc' = "finally"
  /\ UNCHANGED <<config, collected, trace, stack, pool, driverQuit, probe, derived>>

\* save_results raises (a file cannot be written): lines 391-392
SaveFails ==
  /\ mainPc = "save"
  /\ saved' = TRUE
  /\ outcome' = "save_failed"
  /\ mainPc' = "finally"
  /\ UNCHANGED <<config, collected, trace, stack, pool, driverQuit, probe, derived>>

\* lines 393-395
Finally ==
  /\ mainPc = "finally"
  /\ driverQuit' = (driver # "none")
  /\ mainPc' = "exited"
  /\ UNCHANGED <<config, collected, trace, stack, pool, outcome, saved, probe, derived>>

(***************************************************************************)
(* The crawl: one run of main on one site.                                 *)
(***************************************************************************)
Downs(st) == {D \in SUBSET DOMAIN Pages(st) : Cardinality(D) <= MaxDown}

ProbeIdle == link = Empty /\ base_url = Empty /\ follow = <<>>

\* the default of --min-length and of __init__
DefaultMinWordLength == 3

\* no text analysed on its own, no wordlist generated
DerivedIdle == texts = <<>> /\ extracted = {} /\ key_order = <<>> /\ wordlists = <<>>

\* the fields __init__ sets (src/cewlplus.py:27-47), main not yet in its try
Fresh ==
  /\ visited_urls = {}
  /\ words = EmptyMap
  /\ emails = {}
  /\ phone_numbers = {}
  /\ metadata = EmptyMap
  /\ trace = <<>>
  /\ stack = [t \in Threads |-> <<>>]
  /\ executor = "none"
  /\ futures = <<>>
  /\ queue = <<>>
  /\ mainPc = "start"
  /\ outcome = "running"
  /\ saved = FALSE
  /\ driverQuit = FALSE

\* the state after AdvancedCeWL.__init__, for every site and configuration
Init ==
  /\ site \in Sites
  /\ down \in Downs(site)
  /\ max_depth \in 0..MaxDepth
  /\ threads \in 1..MaxThreads
  /\ driver \in {"none", "ok", "broken"}
  /\ min_word_length = DefaultMinWordLength
  /\ Fresh
  /\ ProbeIdle
  /\ DerivedIdle

Next ==
  \/ AnalyzeSite
  \/ \E t \in Threads : Guard(t)
  \/ \E t \in Threads : MarkFetch(t)
  \/ \E t \in Threads : CountRead(t)
  \/ \E t \in Threads : CountStore(t)
  \/ \E t \in Threads : Entities(t)
  \/ \E t \in Threads : Links(t)
  \/ PhaseOneDone
  \/ \E t \in Workers : TakeTask(t)
  \/ Join
  \/ Interrupt
  \/ InterruptJoin
  \/ ExitPool
  \/ Error
  \/ SaveResults
  \/ SaveFails
  \/ Finally

Spec == Init /\ [][Next]_vars

(***************************************************************************)
(* The link filter on its own: should_follow_link applied to one candidate *)
(* and one referrer.                                                       *)
(***************************************************************************)
P_other == <<"h","t","t","p",":","/","/","o","t","h","e","r",".","c","o","m">>
P_netpath == <<"/","/","e","x","a","m","p","l","e",".","c","o","m">>
P_page2 == <<"/","p","a","g","e","2">>
P_file == <<"/","f","i","l","e">>
P_img == <<"/","i","m","g">>
E_pdf == <<".","p","d","f">>
E_PDF == <<".","P","D","F">>
E_png == <<".","p","n","g">>
E_Js == <<".","J","s">>
E_html == <<".","h","t","m","l">>
Q_x == <<"?","x","=","1">>
Q_pdf == <<"?","f","=","a",".","p","d","f">>
F_frag == <<"#","f","r","a","g">>
C_javascript == <<"j","a","v","a","s","c","r","i","p","t",":","v","o","i","d","(","0",")">>
C_tel == <<"t","e","l",":","1","2","3">>

\* relative and absolute candidates on the referrer's host and on another
\* host, with and without an extension, a query string, a fragment
Candidates ==
  { pre \o path \o ext \o qs \o fr :
      pre \in {Empty, Origin, P_other, P_netpath},
      path \in {P_page2, P_file, P_img},
      ext \in {Empty, E_pdf, E_PDF, E_png, E_Js, E_html},
      qs \in {Empty, Q_x, Q_pdf},
      fr \in {Empty, F_frag} }
  \cup {C_javascript, H_mail, C_tel, F_frag, H_top}

Referrers == {Origin \o H_a, P_other \o H_root}

FilterInit ==
  /\ site = [kind |-> "cycle", n |-> 0]
  /\ down = {}
  /\ max_depth = 0
  /\ threads = 1
  /\ driver = "none"
  /\ min_word_length = DefaultMinWordLength
  /\ Fresh
  /\ DerivedIdle
  /\ link \in Candidates
  /\ base_url \in Referrers
  /\ follow = <<>>

\* follow = self.should_follow_link(link, base_url)
CallFilter ==
  /\ follow = <<>>
  /\ follow' = <<should_follow_link(link, base_url)>>
  /\ UNCHANGED <<config, collected, trace, stack, pool, top, link, base_url, derived>>

FilterNext == CallFilter

FilterSpec == FilterInit /\ [][FilterNext]_vars

(***************************************************************************)
(* Python values and their orders, as generate_wordlists uses them.        *)
(***************************************************************************)
\* the ASCII characters from the space (32) to the underscore (95), and from
\* a (97) to the tilde (126), in code-point order
AsciiToUnderscore ==
  <<" ", "!", "\"", "#", "$", "%", "&", "'", "(", ")", "*", "+", ",", "-", ".", "/",
    "0", "1", "2", "3", "4", "5", "6", "7", "8", "9", ":", ";", "<", "=", ">", "?",
    "@", "A", "B", "C", "D", "E", "F", "G", "H", "I", "J", "K", "L", "M", "N", "O",
    "P", "Q", "R", "S", "T", "U", "V", "W", "X", "Y", "Z", "[", "\\", "]", "^", "_">>

AsciiFromA ==
  <<"a", "b", "c", "d", "e", "f", "g", "h", "i", "j", "k", "l", "m", "n", "o",
    "p", "q", "r", "s", "t", "u", "v", "w", "x", "y", "z", "{", "|", "}", "~">>

\* ord(c)
CodePoint ==
  [c \in Range(AsciiToUnderscore) \cup Range(AsciiFromA) |->
     IF c \in Range(AsciiToUnderscore)
     THEN 31 + CHOOSE i \in 1..Len(AsciiToUnderscore) : AsciiToUnderscore[i] = c
     ELSE 96 + CHOOSE i \in 1..Len(AsciiFromA) : AsciiFromA[i] = c]

\* a < b on str: by code point, a proper prefix first
RECURSIVE StrLess(_, _)
StrLess(a, b) ==
  IF b = <<>> THEN FALSE
  ELSE IF a = <<>> THEN TRUE
  ELSE IF a[1] = b[1] THEN StrLess(Tail(a), Tail(b))
  ELSE CodePoint[a[1]] < CodePoint[b[1]]

\* sorted(S) of a set of str
RECURSIVE sorted(_)
sorted(S) ==
  IF S = {} THEN <<>>
  ELSE LET m == CHOOSE x \in S : \A y \in S \ {x} : StrLess(x, y)
       IN <<m>> \o sorted(S \ {m})

\* the keys of Counter.most_common(): by descending count, keys of equal
\* count in the order they were inserted (the sort is stable)
RECURSIVE most_common(_, _)
most_common(keys, counts) ==
  IF keys = <<>> THEN <<>>
  ELSE LET k == Least({i \in DOMAIN keys :
                         \A j \in DOMAIN keys : counts[keys[j]] <= counts[keys[i]]})
       IN <<keys[k]>>
          \o most_common(SubSeq(keys, 1, k - 1) \o SubSeq(keys, k + 1, Len(keys)),
                         counts)

\* an entry of a wordlist is a Python value: a str, or a list of str
PyStr(s) == [type |-> "str", value |-> s]

PyList(items) == [type |-> "list", value |-> items]

\* [f(x) for x in xs] with PyStr for f
RECURSIVE StrEntries(_)
StrEntries(xs) ==
  IF xs = <<>> THEN <<>> ELSE <<PyStr(Head(xs))>> \o StrEntries(Tail(xs))

(***************************************************************************)
(* generate_wordlists (src/cewlplus.py:245-275).  The Counter self.words   *)
(* is read as its keys in insertion order and its counts.                  *)
(***************************************************************************)
S_123 == <<"1","2","3">>
S_bang == <<"!">>
S_2024 == <<"2","0","2","4">>
S_1 == <<"1">>
S_slash == <<"/">>

\* the variant without the year mutation
password_mutations_no_year(word) == {word, word \o S_123, word \o S_bang, word \o S_1}

\* lines 256-260: what one word adds to password_words
password_mutations(word) ==
  {word, word \o S_123, word \o S_bang, word \o S_2024, word \o S_1}

\* lines 253-260
password_words(keys) ==
  UNION {password_mutations(keys[i]) : i \in {j \in DOMAIN keys : Len(keys[j]) >= 6}}

\* [word for word in self.words if lo <= len(word) <= hi]
WordsOfLength(keys, lo, hi) ==
  LET fits(w) == lo <= Len(w) /\ Len(w) <= hi
  IN SelectSeq(keys, fits)

\* [word for word in self.words if len(word) >= lo]
WordsFrom(keys, lo) ==
  LET fits(w) == Len(w) >= lo
  IN SelectSeq(keys, fits)

\* the variant that lists the usernames by frequency
usernames_by_frequency(keys, counts) == WordsOfLength(most_common(keys, counts), 3, 12)

\* line 264: the keys of self.words of length 3 to 12, as the Counter lists them
usernames(keys, counts) == WordsOfLength(keys, 3, 12)

\* line 267: f"/{word}/"
RECURSIVE directories(_)
directories(ws) ==
  IF ws = <<>> THEN <<>>
  ELSE <<S_slash \o Head(ws) \o S_slash>> \o directories(Tail(ws))

\* line 270
api_patterns ==
  << <<"a","p","i">>, <<"v","1">>, <<"v","2">>, <<"r","e","s","t">>,
     <<"g","r","a","p","h","q","l">> >>

\* line 273, the generator handed to extend: for every word of length >= 3 one
\* element, the two-element list [f"/{pattern}/{word}", f"/{word}/{pattern}"]
RECURSIVE endpoint_items(_, _)
endpoint_items(pattern, ws) ==
  IF ws = <<>> THEN <<>>
  ELSE <<PyList(<<S_slash \o pattern \o S_slash \o Head(ws),
                  S_slash \o Head(ws) \o S_slash \o pattern>>)>>
       \o endpoint_items(pattern, Tail(ws))

\* lines 271-273: extend appends each element the generator yields
RECURSIVE endpoints(_, _)
endpoints(patterns, keys) ==
  IF patterns = <<>> THEN <<>>
  ELSE endpoint_items(Head(patterns), WordsFrom(keys, 3))
       \o endpoints(Tail(patterns), keys)

generate_wordlists(keys, counts) ==
  [basic |-> StrEntries(most_common(keys, counts)),
   passwords |-> StrEntries(sorted(password_words(keys))),
   usernames |-> StrEntries(usernames(keys, counts)),
   directories |-> StrEntries(directories(WordsFrom(keys, 3))),
   endpoints |-> endpoints(api_patterns, keys)]

(***************************************************************************)
(* Regular expressions on a page's text, as re.findall computes them for   *)
(* the patterns of extract_words_advanced and extract_entities: the match  *)
(* at a position is the one the backtracking search finds first, matches   *)
(* are taken from left to right and do not overlap.  The text is ASCII.    *)
(***************************************************************************)
LowerChars == Range(LowerAlphabet)

UpperChars == Range(UpperAlphabet)

\* [a-zA-Z0-9]
AlnumChars == LetterChars \cup DigitChars

\* \w
WordChars == AlnumChars \cup {"_"}

\* \s
Whitespace == {" ", "\t", "\n", "\r"}

\* the class [!@#$%^&*()_+\-=\[\]{};\':"\\|,.<>/?] of line 80
SpecialChars ==
  {"!", "@", "#", "$", "%", "^", "&", "*", "(", ")", "_", "+", "-", "=", "[", "]",
   "{", "}", ";", "'", ":", "\"", "\\", "|", ",", ".", "<", ">", "/", "?"}

\* the character at position i, "" outside the text
At(t, i) == IF i \in 1..Len(t) THEN t[i] ELSE ""

\* \b just before position i
Boundary(t, i) == (At(t, i - 1) \in WordChars) # (At(t, i) \in WordChars)

\* the last position of the longest run of characters of class cls that
\* starts at position p; p - 1 when the run is empty
RunEnd(t, p, cls) ==
  LET stops == {i \in p..Len(t) : t[i] \notin cls}
  IN IF p > Len(t) THEN p - 1
     ELSE IF stops = {} THEN Len(t) ELSE Least(stops) - 1

\* the spans of the non-overlapping matches from position from on, where
\* ends[p] is the last position of the match that starts at p, 0 for no match
RECURSIVE Spans(_, _)
Spans(ends, from) ==
  LET starts == {p \in from..Len(ends) : ends[p] # 0}
  IN IF starts = {} THEN <<>>
     ELSE <<[start |-> Least(starts), end |-> ends[Least(starts)]]>>
          \o Spans(ends, ends[Least(starts)] + 1)

\* the matched substrings, in order
Matched(t, spans) == [k \in DOMAIN spans |-> SubSeq(t, spans[k].start, spans[k].end)]

\* \b[a-zA-Z0-9]{n,}\b at p (line 69): the run is taken whole, a shorter
\* one ends inside the run, where there is no \b
BasicWordEnd(t, n, p) ==
  LET e == RunEnd(t, p, AlnumChars)
  IN IF Boundary(t, p) /\ e - p + 1 >= n /\ Boundary(t, e + 1) THEN e ELSE 0

\* [a-z]+[A-Z][a-z]+ at p (line 73)
CamelEnd(t, p) ==
  LET a == RunEnd(t, p, LowerChars)
  IN IF a >= p /\ At(t, a + 1) \in UpperChars /\ At(t, a + 2) \in LowerChars
     THEN RunEnd(t, a + 2, LowerChars)
     ELSE 0

\* [A-Z]?[a-z]+ at p (line 76)
SubWordEnd(t, p) ==
  IF At(t, p) \in UpperChars /\ At(t, p + 1) \in LowerChars
  THEN RunEnd(t, p + 1, LowerChars)
  ELSE IF At(t, p) \in LowerChars THEN RunEnd(t, p, LowerChars)
  ELSE 0

\* the ways \w+[...]+\w*\b matches from p: \w+ ends at i, the specials at j,
\* the match at e
SpecialWays(t, p) ==
  UNION { UNION { { <<i, j, e>> :
                      e \in {x \in j..RunEnd(t, j + 1, WordChars) : Boundary(t, x + 1)} } :
                  j \in (i + 1)..RunEnd(t, i + 1, SpecialChars) } :
          i \in p..RunEnd(t, p, WordChars) }

\* way c is tried before way d: each quantifier is greedy, the leftmost first
TriedBefore(c, d) ==
  \/ c[1] > d[1]
  \/ c[1] = d[1] /\ c[2] > d[2]
  \/ c[1] = d[1] /\ c[2] = d[2] /\ c[3] > d[3]

\* \b\w+[...]+\w*\b at p (line 80)
SpecialEnd(t, p) ==
  IF ~Boundary(t, p) \/ SpecialWays(t, p) = {} THEN 0
  ELSE (CHOOSE c \in SpecialWays(t, p) :
          \A d \in SpecialWays(t, p) \ {c} : TriedBefore(c, d))[3]

\* [A-Z][a-z]+ at p
CapWordEnd(t, p) ==
  IF At(t, p) \in UpperChars /\ At(t, p + 1) \in LowerChars
  THEN RunEnd(t, p + 1, LowerChars)
  ELSE 0

\* the next group \s+[A-Z][a-z]+ after a word that ends at r
NextCapWordEnd(t, r) ==
  IF RunEnd(t, r + 1, Whitespace) >= r + 1
  THEN CapWordEnd(t, RunEnd(t, r + 1, Whitespace) + 1)
  ELSE 0

\* (?:\s+[A-Z][a-z]+)*\b after a word that ends at r: as many groups as
\* lead to a \b, else none
RECURSIVE TitleTail(_, _)
TitleTail(t, r) ==
  IF NextCapWordEnd(t, r) # 0 /\ TitleTail(t, NextCapWordEnd(t, r)) # 0
  THEN TitleTail(t, NextCapWordEnd(t, r))
  ELSE IF Boundary(t, r + 1) THEN r ELSE 0

\* \b[A-Z][a-z]+(?:\s+[A-Z][a-z]+)*\b at p (line 84)
TitleEnd(t, p) ==
  IF Boundary(t, p) /\ CapWordEnd(t, p) # 0 THEN TitleTail(t, CapWordEnd(t, p)) ELSE 0

\* str.split(): the maximal runs of non-whitespace characters
RECURSIVE SplitWhitespace(_)
SplitWhitespace(s) ==
  LET p == RunEnd(s, 1, Whitespace) + 1
      e == FindAny(s, Whitespace, p) - 1
  IN IF p > Len(s) THEN <<>>
     ELSE <<SubSeq(s, p, e)>> \o SplitWhitespace(SubSeq(s, e + 1, Len(s)))

(***************************************************************************)
(* extract_words_advanced (src/cewlplus.py:64-88).                         *)
(***************************************************************************)
\* line 69, on text.lower()
basic_words(text, n) ==
  Matched(Lower(text),
          Spans([p \in 1..Len(text) |-> BasicWordEnd(Lower(text), n, p)], 1))

\* line 73
camel_case(text) == Matched(text, Spans([p \in 1..Len(text) |-> CamelEnd(text, p)], 1))

\* line 76
split_words(word) == Matched(word, Spans([p \in 1..Len(word) |-> SubWordEnd(word, p)], 1))

\* line 80
special_words(text) ==
  Matched(text, Spans([p \in 1..Len(text) |-> SpecialEnd(text, p)], 1))

\* line 84
title_case(text) == Matched(text, Spans([p \in 1..Len(text) |-> TitleEnd(text, p)], 1))

\* [w.lower() for w in ws if len(w) >= n]
LowerOfLength(ws, n) == {Lower(ws[k]) : k \in {j \in DOMAIN ws : Len(ws[j]) >= n}}

\* the set of words returned for a text when self.min_word_length is n
extract_words_advanced(text, n) ==
  Range(basic_words(text, n))
  \cup UNION {LowerOfLength(split_words(word), n) : word \in Range(camel_case(text))}
  \cup {Lower(w) : w \in Range(special_words(text))}
  \cup UNION {LowerOfLength(SplitWhitespace(phrase), n) : phrase \in Range(title_case(text))}

(***************************************************************************)
(* extract_entities, years and versions (src/cewlplus.py:106-112).         *)
(***************************************************************************)
S_19 == <<"1","9">>
S_20 == <<"2","0">>
S_version == <<"v","e","r","s","i","o","n">>

\* \b(19|20)\d{2}\b at p (line 107)
YearEnd(t, p) ==
  IF /\ Boundary(t, p)
     /\ p + 3 <= Len(t)
     /\ SubSeq(t, p, p + 1) \in {S_19, S_20}
     /\ t[p + 2] \in DigitChars /\ t[p + 3] \in DigitChars
     /\ Boundary(t, p + 4)
  THEN p + 3
  ELSE 0

\* re.findall with one group returns the text of the group, (19|20)
RECURSIVE YearGroups(_, _)
YearGroups(t, spans) ==
  IF spans = <<>> THEN <<>>
  ELSE <<SubSeq(t, Head(spans).start, Head(spans).start + 1)>>
       \o YearGroups(t, Tail(spans))

years_found(text) ==
  YearGroups(text, Spans([p \in 1..Len(text) |-> YearEnd(text, p)], 1))

\* (\.[0-9]+)?\b after the digits that end at b
MinorEnd(t, b) ==
  IF /\ At(t, b + 1) = "."
     /\ RunEnd(t, b + 2, DigitChars) >= b + 2
     /\ Boundary(t, RunEnd(t, b + 2, DigitChars) + 1)
  THEN RunEnd(t, b + 2, DigitChars)
  ELSE IF Boundary(t, b + 1) THEN b ELSE 0

\* [0-9]+\.[0-9]+(\.[0-9]+)?\b at p
NumberEnd(t, p) ==
  LET a == RunEnd(t, p, DigitChars)
  IN IF a >= p /\ At(t, a + 1) = "." /\ RunEnd(t, a + 2, DigitChars) >= a + 2
     THEN MinorEnd(t, RunEnd(t, a + 2, DigitChars))
     ELSE 0

\* \s*[0-9]+\.[0-9]+(\.[0-9]+)?\b at q
SpacedNumberEnd(t, q) == NumberEnd(t, RunEnd(t, q, Whitespace) + 1)

\* the text at p reads v, or version, in any letter case
ReadsAt(t, p, word) ==
  p + Len(word) - 1 <= Len(t) /\ Lower(SubSeq(t, p, p + Len(word) - 1)) = word

\* \b(v|version)?\s*[0-9]+\.[0-9]+(\.[0-9]+)?\b at p with re.IGNORECASE
\* (line 108): the last position of the match and the length of group 1,
\* the alternatives tried in the order v, version, no prefix
VersionMatch(t, p) ==
  IF ~Boundary(t, p) THEN [end |-> 0, prefix |-> 0]
  ELSE IF ReadsAt(t, p, <<"v">>) /\ SpacedNumberEnd(t, p + 1) # 0
  THEN [end |-> SpacedNumberEnd(t, p + 1), prefix |-> 1]
  ELSE IF ReadsAt(t, p, S_version) /\ SpacedNumberEnd(t, p + 7) # 0
  THEN [end |-> SpacedNumberEnd(t, p + 7), prefix |-> 7]
  ELSE [end |-> SpacedNumberEnd(t, p), prefix |-> 0]

\* [v[0] for v in versions if v[0]]: with two groups findall returns pairs,
\* v[0] is the text of (v|version), '' when it did not take part
RECURSIVE VersionPrefixes(_, _)
VersionPrefixes(t, spans) ==
  IF spans = <<>> THEN <<>>
  ELSE (IF VersionMatch(t, Head(spans).start).prefix = 0 THEN <<>>
        ELSE <<SubSeq(t, Head(spans).start,
                      Head(spans).start + VersionMatch(t, Head(spans).start).prefix - 1)>>)
       \o VersionPrefixes(t, Tail(spans))

versions_found(text) ==
  VersionPrefixes(text, Spans([p \in 1..Len(text) |-> VersionMatch(text, p).end], 1))

\* self.metadata[bucket].extend(values) on the defaultdict
Extend(md, bucket, values) == Put(md, bucket, Get(md, bucket, <<>>) \o values)

\* lines 111-112
extract_years_versions(md, text) ==
  Extend(Extend(md, "years", years_found(text)), "versions", versions_found(text))

(***************************************************************************)
(* Extraction and aggregation on their own: the texts of pages are         *)
(* analysed one after the other (lines 203-207 of analyze_page), then      *)
(* generate_wordlists is called as save_results calls it (line 280).       *)
(***************************************************************************)
X_camel ==
  <<"g","e","t","U","s","e","r","N","a","m","e">>

X_legal ==
  <<"C","o","p","y","r","i","g","h","t"," ","2","0","2","4"," ","v","1",".","2",".","3">>

X_abbrev ==
  <<"e",".","g"," ","s","e","c","r","e","t">>

X_login ==
  <<"m","y"," ","s","e","c","r","e","t"," ","s","e","c","r","e","t","1">>

X_admin ==
  <<"s","e","c","r","e","t","1"," ","a","d","m","i","n","i","s","t","r","a","t","o","r","s">>

X_city ==
  <<"N","e","w"," ","Y","o","r","k"," ","1","9","9","9"," ","V"," ","2",".","0">>

\* page texts as lines 197-200 leave them: a camelCase identifier, a legal
\* line with a year and a version, an abbreviation, a short word and words
\* that are each other's password mutations, a word of more than 12 letters,
\* a Title Case phrase with a year and a spaced version
Texts == {X_camel, X_legal, X_abbrev, X_login, X_admin, X_city}

\* min_word_length ranges over 1..MaxMinLength
MaxMinLength == 4

\* at most MaxPages texts are analysed in a run
MaxPages == 2

\* a set of words is iterated in every order when it has up to this many
MaxShuffle == 2

\* for word in words: a set is iterated in an order the program does not
\* choose; every order for small sets, one order for large ones
IterationsOf(S) == IF Cardinality(S) <= MaxShuffle THEN Perms(S) ELSE {SetToSeq(S)}

\* the email and phone patterns of lines 93-104 need an @, a + or a ( or
\* ten digits: they find nothing in a text without them
HoldsNoContact(text) ==
  /\ Range(text) \cap {"@", "+", "("} = {}
  /\ Cardinality({i \in DOMAIN text : text[i] \in DigitChars}) < 10

\* what the routines return for each text and minimum length
WordsOf ==
  [text \in Texts |-> [n \in 1..MaxMinLength |-> extract_words_advanced(text, n)]]

\* for word in words: self.words[word] += 1, the set iterated in order ws:
\* a key that is new to the Counter is inserted after the keys it has
RECURSIVE CountInOrder(_, _)
CountInOrder(counter, ws) ==
  IF ws = <<>> THEN counter
  ELSE CountInOrder(
         [keys |-> IF Head(ws) \in DOMAIN counter.counts THEN counter.keys
                   ELSE Append(counter.keys, Head(ws)),
          counts |-> Put(counter.counts, Head(ws), Get(counter.counts, Head(ws), 0) + 1)],
         Tail(ws))

PipelineInit ==
  /\ site = [kind |-> "cycle", n |-> 0]
  /\ down = {}
  /\ max_depth = 0
  /\ threads = 1
  /\ driver = "none"
  /\ min_word_length \in 1..MaxMinLength
  /\ Fresh
  /\ ProbeIdle
  /\ DerivedIdle

\* lines 203-207 for one page text: the words are extracted and counted,
\* the years and versions appended
ExtractPage ==
  /\ wordlists = <<>> /\ Len(texts) < MaxPages
  /\ \E text \in Texts :
       /\ HoldsNoContact(text)
       /\ texts' = Append(texts, text)
       /\ extracted' = WordsOf[text][min_word_length]
       /\ \E ws \in IterationsOf(WordsOf[text][min_word_length]) :
            /\ words' = CountInOrder([keys |-> key_order, counts |-> words], ws).counts
            /\ key_order' = CountInOrder([keys |-> key_order, counts |-> words], ws).keys
       /\ metadata' = extract_years_versions(metadata, text)
  /\ UNCHANGED <<config, visited_urls, emails, phone_numbers, trace, stack, pool,
                 top, probe, wordlists>>

\* line 280: wordlists = self.generate_wordlists()
GenerateWordlists ==
  /\ wordlists = <<>>
  /\ wordlists' = <<generate_wordlists(key_order, words)>>
  /\ UNCHANGED <<config, collected, trace, stack, pool, top, probe,
                 texts, extracted, key_order>>

PipelineNext == ExtractPage \/ GenerateWordlists

PipelineSpec == PipelineInit /\ [][PipelineNext]_vars

(***************************************************************************)
(* The single-threaded run: analyze_site computed as a function of the     *)
(* site, one call after the other, the re-scan in one thread.              *)
(***************************************************************************)
\* for word in words: self.words[word] += 1, with no other thread
RECURSIVE CountAll(_, _)
CountAll(counts, todo) ==
  IF todo = {} THEN counts
  ELSE LET w == CHOOSE x \in todo : TRUE
       IN CountAll(Put(counts, w, Get(counts, w, 0) + 1), todo \ {w})

RECURSIVE SeqCrawl(_, _, _)
RECURSIVE SeqLinks(_, _, _, _, _)

SeqFollow(acc, url, depth, full_url) ==
  IF should_follow_link(full_url, url) THEN SeqCrawl(acc, full_url, depth + 1) ELSE acc

SeqLinks(acc, url, depth, links, i) ==
  IF depth < max_depth /\ i <= Len(links)
  THEN SeqLinks(SeqFollow(acc, url, depth, urljoin(url, links[i])),
                url, depth, links, i + 1)
  ELSE acc

SeqPage(acc, url, depth, content) ==
  IF content.size = "empty" THEN acc
  ELSE SeqLinks([acc EXCEPT !.words = CountAll(@, content.words)],
                url, depth, content.links, 1)

SeqCrawl(acc, url, depth) ==
  IF depth > max_depth \/ url \in acc.visited THEN acc
  ELSE SeqPage([acc EXCEPT !.visited = @ \cup {url}], url, depth,
               get_page_content(url))

RECURSIVE SeqEach(_, _)
SeqEach(acc, urls) ==
  IF urls = <<>> THEN acc
  ELSE SeqEach(SeqCrawl(acc, Head(urls), RescanDepth), Tail(urls))

SeqRescan(acc) ==
  IF Cardinality(acc.visited) < RescanThreshold
  THEN SeqEach(acc, SetToSeq(acc.visited))
  ELSE acc

SingleThreaded ==
  SeqRescan(SeqCrawl([visited |-> {}, words |-> EmptyMap], start_url, 0))

(***************************************************************************)
(* Properties.                                                             *)
(***************************************************************************)
\* the positions of the trace at which url was analysed
Analyses(url) ==
  {i \in DOMAIN trace : trace[i].ev = "analyze" /\ trace[i].url = url}

AnalyzedAt == {i \in DOMAIN trace : trace[i].ev = "analyze"}

\* the re-scan pass is over: the pool was made and has been shut down
RescanOver == executor = "shutdown"

\* C1: after the re-scan pass, for every pool size and interleaving, the
\* word-frequency map is the one a single-threaded run over the same site
\* produces: no increment is lost.
C1_NoLostUpdate == RescanOver => words = SingleThreaded.words

\* a run with two workers and several tasks, a word counted on two pages
C1_Witness ==
  /\ RescanOver /\ threads >= 2 /\ Len(futures) >= 3
  /\ \E w \in DOMAIN words : words[w] >= 2

\* C2: in the re-scan pass every URL of the visited set is fetched and
\* counted a second time (the guard does not stop the resubmitted task).
C2_RescanReprocesses ==
  RescanOver => \A k \in DOMAIN futures : Cardinality(Analyses(futures[k])) >= 2

\* C3: the re-scan pass does not change the visited set: from the moment the
\* pool is made the visited set is the set of URLs that were submitted.
C3_RescanKeepsVisited ==
  executor # "none" => visited_urls = Range(futures)

\* url is a visited page with a link the filter approves that was not visited
HasUnvisitedLink(url) ==
  \E k \in DOMAIN get_page_content(url).links :
     /\ should_follow_link(urljoin(url, get_page_content(url).links[k]), url)
     /\ urljoin(url, get_page_content(url).links[k]) \notin visited_urls

\* the pass is over on a site where a resubmitted page has an unvisited link
C3_Witness ==
  /\ RescanOver /\ max_depth >= 2
  /\ \E url \in visited_urls : HasUnvisitedLink(url)

\* C4 (state part): in phase one no URL is analysed twice and the visited
\* set has as many URLs as fetches were started for
C4_PhaseOneDedup ==
  executor = "none" =>
    /\ \A i \in AnalyzedAt : Analyses(trace[i].url) = {i}
    /\ Cardinality(visited_urls) = Cardinality({trace[i].url : i \in AnalyzedAt})

\* C4: during the depth-first traversal no URL is fetched more than once,
\* the size of the visited set equals the number of distinct URLs fetched,
\* and a URL never leaves the visited set.
C4_Dedup == [](C4_PhaseOneDedup) /\ [][visited_urls \subseteq visited_urls']_vars

\* phase one reaches again a URL it has visited, and the guard is about to act
C4_Witness ==
  /\ executor = "none" /\ Running(0)
  /\ Top(0).pc = "guard" /\ Top(0).url \in visited_urls
  /\ Cardinality(visited_urls) >= 2

\* C5: no page is analysed at a depth above max_depth; with max_depth = 0 at
\* most one page is analysed, and a completed run analysed exactly the start
\* URL, whatever links it has.
C5_DepthBound ==
  /\ \A i \in AnalyzedAt : trace[i].depth <= max_depth
  /\ max_depth = 0 => Cardinality(AnalyzedAt) <= 1
  /\ (max_depth = 0 /\ outcome = "complete") =>
        /\ Cardinality(AnalyzedAt) = 1
        /\ \A i \in AnalyzedAt : trace[i].url = start_url

\* a completed run at max_depth 0, both phases, on a start page with links
C5_Witness ==
  /\ max_depth = 0 /\ outcome = "complete" /\ RescanOver
  /\ Len(get_page_content(start_url).links) >= 3

\* the try block of main ended in one of its except clauses during analysis
AnalysisFailed == outcome \in {"interrupted", "error"}

FetchFailsOrEmpty(url) ==
  IF RequestFails(StripFragment(url)) THEN TRUE
  ELSE ServedBody(StripFragment(url)).size = "empty"

\* thread t takes the step of analyze_page that marks and fetches its URL
Fetches(t) ==
  /\ stack[t] # <<>> /\ Top(t).pc = "fetch"
  /\ stack'[t] # stack[t]
  /\ Len(trace') = Len(trace) + 1

\* C8: a fetch that fails or yields empty content does not abort the run: the
\* URL stays visited, the word map, the email and phone sets and the metadata
\* are unchanged, none of its links is followed (the call returns), and the
\* referring page goes on with its remaining links.
C8_FailedFetch ==
  [][\A t \in Threads :
       (Fetches(t) /\ FetchFailsOrEmpty(Top(t).url)) =>
          /\ Top(t).url \in visited_urls'
          /\ <<words, emails, phone_numbers, metadata>>'
               = <<words, emails, phone_numbers, metadata>>
          /\ stack'[t] = Tail(stack[t])
          /\ (stack'[t] # <<>> => Head(stack'[t]).pc = "links")
          /\ <<mainPc, outcome>>' = <<mainPc, outcome>>]_vars

\* a fetch below the start URL failed and a later page was analysed
C8_Witness ==
  \E i, j \in AnalyzedAt :
     /\ i < j /\ trace[i].depth >= 1
     /\ FetchFailsOrEmpty(trace[i].url)
     /\ ~FetchFailsOrEmpty(trace[j].url)
     /\ DOMAIN words # {}

(***************************************************************************)
(* Properties of the link filter, under FilterSpec.                        *)
(***************************************************************************)
SkippedExts == DocumentExts \cup ImageExts \cup StyleScriptExts

\* the path of the candidate ends in a skipped extension, in any letter case
PathHasSkippedExt(candidate) ==
  \E e \in SkippedExts :
     EndsWith(Lower(urlparse(candidate, Empty).path), <<".">> \o e)

\* the candidate names a host other than the referrer's
NamesOtherHost(candidate, referrer) ==
  /\ urlparse(candidate, Empty).netloc # Empty
  /\ urlparse(candidate, Empty).netloc # urlparse(referrer, Empty).netloc

\* a javascript:, mailto: or tel: link, or a bare #fragment
NonHttpOrFragment(candidate) ==
  \E p \in {S_javascript, S_mailto, S_tel, S_hash} : StartsWith(Lower(candidate), p)

\* C9: should_follow_link rejects every candidate whose path ends in a
\* skipped extension, in any letter case, also when a query string follows.
C9_SkippedExtRejected ==
  (follow # <<>> /\ PathHasSkippedExt(link)) => follow = <<FALSE>>

\* C10: should_follow_link rejects a candidate exactly when it names another
\* host, is a skipped-extension path, a javascript:/mailto:/tel: link or a
\* bare #fragment, and accepts every other candidate.
C10_FilterDecision ==
  follow # <<>> =>
    (follow = <<FALSE>> <=>
       \/ NamesOtherHost(link, base_url)
       \/ PathHasSkippedExt(link)
       \/ NonHttpOrFragment(link))

(***************************************************************************)
(* Properties of the wordlist generator, under PipelineSpec.               *)
(***************************************************************************)
\* generate_wordlists has returned
Generated == wordlists # <<>>

\* the words the run discovered
Discovered == DOMAIN words

\* entry is the str s
IsStr(entry, s) == entry.type = "str" /\ entry.value = s

\* C11: every entry of the endpoints list is a string, and for every
\* discovered word of length >= 3 and every pattern of api, v1, v2, rest,
\* graphql the list has the two separate entries /<pattern>/<word> and
\* /<word>/<pattern>.
C11_EndpointStrings ==
  Generated =>
    /\ \A k \in DOMAIN wordlists[1].endpoints : wordlists[1].endpoints[k].type = "str"
    /\ \A w \in {x \in Discovered : Len(x) >= 3} :
         \A p \in Range(api_patterns) :
            /\ \E k \in DOMAIN wordlists[1].endpoints :
                  IsStr(wordlists[1].endpoints[k], S_slash \o p \o S_slash \o w)
            /\ \E k \in DOMAIN wordlists[1].endpoints :
                  IsStr(wordlists[1].endpoints[k], S_slash \o w \o S_slash \o p)

\* the values of the entries of a list of str
Values(entries) == [k \in DOMAIN entries |-> entries[k].value]

\* the sequence has no element twice
NoDuplicates(xs) == \A i, j \in DOMAIN xs : xs[i] = xs[j] => i = j

\* the words of length 3 to 12
UsernameWords == {w \in Discovered : 3 <= Len(w) /\ Len(w) <= 12}

\* the usernames list holds exactly the words of length 3 to 12, each once
ExactlyUsernames(us) == Range(us) = UsernameWords /\ NoDuplicates(us)

\* the position at which word w was inserted into the word map
InsertedAt(w) == CHOOSE i \in DOMAIN key_order : key_order[i] = w

\* C12 as stated: the usernames list holds exactly the discovered words of
\* length 3 to 12, in frequency order: a word with a higher count never comes
\* after a word with a lower count.
C12_UsernamesByFrequency ==
  Generated =>
    /\ ExactlyUsernames(Values(wordlists[1].usernames))
    /\ \A i, j \in DOMAIN wordlists[1].usernames :
         i < j => words[wordlists[1].usernames[i].value]
                    >= words[wordlists[1].usernames[j].value]

\* C12 as amended: the usernames list holds exactly the discovered words of
\* length 3 to 12, each once, in the order in which the words were first
\* inserted into the word map, whatever their counts.
C12_UsernamesByInsertion ==
  Generated =>
    /\ ExactlyUsernames(Values(wordlists[1].usernames))
    /\ \A i, j \in DOMAIN wordlists[1].usernames :
         i < j => InsertedAt(wordlists[1].usernames[i].value)
                    < InsertedAt(wordlists[1].usernames[j].value)

\* the lists were generated from a map in which a word inserted earlier has
\* the lower count, with a word too long and a word too short for the list
C12_Witness ==
  /\ Generated
  /\ \E i, j \in DOMAIN key_order :
       /\ i < j /\ words[key_order[i]] < words[key_order[j]]
       /\ {key_order[i], key_order[j]} \subseteq UsernameWords
  /\ \E w \in Discovered : Len(w) > 12
  /\ \E w \in Discovered : Len(w) < 3

\* the suffixes of the password mutations, the bare word included
PasswordSuffixes == {Empty, S_123, S_bang, S_2024, S_1}

\* C15: the passwords list is exactly the set of w, w123, w!, w2024, w1 for
\* the discovered words w of length >= 6, without duplicates and in
\* lexicographic order; a word shorter than 6 contributes no entry.
C15_Passwords ==
  Generated =>
    /\ \A k \in DOMAIN wordlists[1].passwords : wordlists[1].passwords[k].type = "str"
    /\ Range(Values(wordlists[1].passwords))
         = {w \o x : w \in {y \in Discovered : Len(y) >= 6}, x \in PasswordSuffixes}
    /\ \A i \in 1..(Len(wordlists[1].passwords) - 1) :
         StrLess(wordlists[1].passwords[i].value, wordlists[1].passwords[i + 1].value)

\* the lists were generated from a word shorter than 6 and two long words of
\* which one is a mutation of the other
C15_Witness ==
  /\ Generated
  /\ \E w \in Discovered : Len(w) < 6
  /\ \E v, w \in Discovered : Len(v) >= 6 /\ w = v \o S_1

(***************************************************************************)
(* Properties of the extraction, under PipelineSpec.                       *)
(***************************************************************************)
W_get == <<"g","e","t">>
W_user == <<"u","s","e","r">>
W_name == <<"n","a","m","e">>

\* the text extract_words_advanced was last called on
LastText == texts[Len(texts)]

\* C13: word extraction splits a camelCase identifier into all of its
\* sub-runs: for the input getUserName with min_word_length 3 the returned
\* word set contains get, user and name.
C13_CamelCaseSplit ==
  (texts # <<>> /\ LastText = X_camel /\ min_word_length = 3) =>
     {W_get, W_user, W_name} \subseteq extracted

\* the four-digit years 1900 to 2099 that occur in a text, whole, in order
WholeYears(text) ==
  Matched(text, Spans([p \in 1..Len(text) |-> YearEnd(text, p)], 1))

\* s.lstrip()
StripLeft(s) == SubSeq(s, RunEnd(s, 1, Whitespace) + 1, Len(s))

\* the matches of the version pattern in a text
VersionSpans(text) == Spans([p \in 1..Len(text) |-> VersionMatch(text, p).end], 1)

\* the version tokens that occur in a text, whole, in order
WholeVersions(text) ==
  [k \in DOMAIN VersionSpans(text) |-> StripLeft(Matched(text, VersionSpans(text))[k])]

\* the tokens of the texts analysed so far, one after the other
RECURSIVE TokensOf(_, _)
TokensOf(ts, kind) ==
  IF ts = <<>> THEN <<>>
  ELSE (IF kind = "years" THEN WholeYears(Head(ts)) ELSE WholeVersions(Head(ts)))
       \o TokensOf(Tail(ts), kind)

\* C14: for every four-digit year between 1900 and 2099 and every version
\* token (N.N or N.N.N, with or without a v/version prefix) that occurs in a
\* page's text, extract_entities appends the whole matched token to the
\* metadata bucket years or versions, once per occurrence.
C14_WholeTokens ==
  /\ Get(metadata, "years", <<>>) = TokensOf(texts, "years")
  /\ Get(metadata, "versions", <<>>) = TokensOf(texts, "versions")

\* every key of the word map is lower-cased
KeysLowerCased == \A w \in Discovered : Lower(w) = w

\* C16: in every reachable state and for every configured min_word_length,
\* each key of the word-frequency map is lower-cased and at least
\* min_word_length characters long, and its count is a positive integer.
C16_WordMapKeys ==
  /\ KeysLowerCased
  /\ \A w \in Discovered : Len(w) >= min_word_length
  /\ \A w \in Discovered : words[w] \in Nat \ {0}

(***************************************************************************)
(* Properties of the crawl's links, under Spec.                            *)
(***************************************************************************)
\* the URLs that the hrefs of an analysed page resolve to, for the hrefs that
\* are a same-page fragment or a javascript:, mailto: or tel: link
NonContentTargets ==
  UNION {{urljoin(trace[i].url, h) :
            h \in {x \in Range(get_page_content(trace[i].url).links) :
                     NonHttpOrFragment(x)}} :
         i \in AnalyzedAt}

\* C17: an anchor whose href is a same-page fragment, a javascript:, a
\* mailto: or a tel: link never leads to a fetch, and no page is fetched and
\* counted again through its own #fragment link.
C17_NoFetchOfNonContent ==
  /\ \A i \in AnalyzedAt : trace[i].url \notin NonContentTargets
  /\ \A i, j \in AnalyzedAt :
       StripFragment(trace[i].url) = StripFragment(trace[j].url) => i = j

\* C18: in phase one every fetch other than the fetch of the start URL comes
\* right after the politeness sleep made for its URL, so that no two fetches
\* happen without a sleep between them; the first fetch is that of the start
\* URL.
C18_SleepBeforeFetch ==
  executor = "none" =>
    \A i \in AnalyzedAt :
       IF i = 1
       THEN trace[i].url = start_url /\ trace[i].depth = 0
       ELSE /\ trace[i - 1].ev = "sleep"
            /\ trace[i - 1].url = trace[i].url
            /\ trace[i - 1].depth = trace[i].depth

\* phase one has fetched three pages and has slept for a link it then did
\* not fetch
C18_Witness ==
  /\ executor = "none" /\ Cardinality(AnalyzedAt) >= 3
  /\ \E k \in DOMAIN trace :
       /\ k < Len(trace)
       /\ trace[k].ev = "sleep" /\ trace[k + 1].ev = "sleep"
       /\ \E i \in AnalyzedAt : i > k

\* the URLs the links of page url resolve to, for the links the filter approves
ApprovedLinks(url) ==
  {full_url \in {urljoin(url, h) : h \in Range(get_page_content(url).links)} :
     should_follow_link(full_url, url)}

\* the URLs that a chain of at most n approved links reaches from the start URL
RECURSIVE ReachableWithin(_)
ReachableWithin(n) ==
  IF n = 0 THEN {start_url}
  ELSE ReachableWithin(n - 1)
       \cup UNION {ApprovedLinks(url) : url \in ReachableWithin(n - 1)}

\* every fetch of a URL the crawl may reach succeeds with content
AllFetchesSucceed == \A url \in ReachableWithin(max_depth) : ~FetchFailsOrEmpty(url)

\* C19: when every fetch succeeds, at the end of the run every URL that a
\* chain of at most max_depth approved links reaches from the start URL is in
\* the visited set, whatever the order of the links on the pages.
C19_ReachableVisited ==
  (mainPc = "exited" /\ outcome = "complete" /\ AllFetchesSucceed) =>
     ReachableWithin(max_depth) \subseteq visited_urls

\* C20: every URL for which a fetch is started has the host of the start
\* URL: the crawl never reaches a URL with another host or with no host.
C20_SameHost ==
  \A i \in AnalyzedAt :
     urlparse(trace[i].url, Empty).netloc = urlparse(start_url, Empty).netloc

====
